---- MODULE Spec2Model ----
(***************************************************************************)
(* Streak calculation, seal classification and rating engine of           *)
(* zicheqingluo/stock_analyzer.                                            *)
(*                                                                         *)
(* Several specifications share the module:                                *)
(*   Spec          one run of calculate_streak_days / _get_streak_days     *)
(*                 over a fixed limit-pool history (step per pool fetch)   *)
(*   SpecRating    the pure rating / advice functions applied to every     *)
(*                 tuple of flags                                          *)
(*   SpecAnalysis  comprehensive_stock_analysis over one day's feeds       *)
(*   SpecResolver  name-to-code resolution                                 *)
(*   SpecLimitType limit-type classification over daily bars               *)
(*   SpecQueryDate get_query_date of every module                          *)
(*   SpecBatch     batch_analysis over a list of symbols                   *)
(* Strings of the source that are not ASCII are rendered by ASCII labels,  *)
(* one label per distinct source string.                                   *)
(***************************************************************************)
EXTENDS Integers, Sequences, FiniteSets, TLC

VARIABLES
    \* ---- streak computation (stock_streak_calculator.py, stock_monitor_analysis.py)
    fn,                   \* which copy runs: "calc" = calculate_streak_days, "monitor" = _get_streak_days
    hist,                 \* what ak.stock_zt_pool_em returns for as-of date minus d days, d < HistLen
    tail,                 \* what it returns for every older date
    today_col,            \* value of the 连板数 column in the symbol's row of the as-of pool (0 = none usable)
    stock_info,           \* outcome of get_stock_info: not called yet, raised, or the 连板数 it carries
    pc,                   \* position of the streak computation
    i,                    \* loop variable of the current outer for loop
    j,                    \* loop variable of the inner for loop
    streak_days,
    today_in_pool,
    consecutive_failures,
    fetches,              \* day offsets passed to ak.stock_zt_pool_em so far, in call order
    stock_code,           \* where the analysed code comes from: the input, the resolver, or the padded raw text
    query_date_ok,        \* query_date parses as %Y%m%d
    result,               \* returned streak (-1 while running)
    \* ---- rating functions (stock_rating_advisor.py, stock_monitor_analysis.py)
    args,                 \* the flags a rating call is made with
    rating_info,          \* generate_rating(...)
    advice,               \* generate_investment_advice(...)
    m_rating_info,        \* StockMonitorAnalysis._generate_rating(...)
    m_advice,             \* StockMonitorAnalysis._generate_investment_advice(...)
    clock,                \* wall clock, the state outside the arguments
    rating_again,         \* generate_rating(...) called once more with the same flags
    \* ---- comprehensive_stock_analysis (stock_monitor_analysis.py)
    limit_feed,           \* 时间 of the symbol's rows of stock_changes_em("封涨停板"), in feed order
    open_feed,            \* 时间 of its rows of stock_changes_em("打开涨停板"), in feed order
    sell_feed,            \* 时间 of its rows of stock_changes_em("大笔卖出")
    in_limit_pool,        \* the symbol is in stock_zt_pool_em of the query date
    in_zb_pool,           \* the symbol is in stock_zt_pool_zbgc_em (broken-seal pool)
    in_strong_pool,       \* the symbol is in stock_zt_pool_strong_em
    analysis,             \* the dict comprehensive_stock_analysis returns
    \* ---- name resolution (stock_name_resolver.py)
    stock_dict,           \* StockNameResolver.stock_dict: the name of each code, in insertion order
    name,                 \* the text handed to get_stock_code_by_name
    resolved,             \* what get_stock_code_by_name returned
    \* ---- limit-type classification (stock_pattern_analyzer.py, stock_data_collector.py)
    bar,                  \* one daily bar: previous close and open, high, low, close, in cents
    limit_type,           \* StockPatternAnalyzer._get_limit_type(row)
    detailed_type,        \* limit_type of the bar in StockDataCollector._get_detailed_history
    \* ---- query date (stock_monitor_*.py, stock_data_fetcher.py)
    now_day,              \* self.current_time: the Shanghai date, as a day number (day 0 is a Monday)
    now_hour,             \* self.current_time.hour
    trade_calendar,       \* what the trading-calendar interfaces give the fetcher
    query_date,           \* the date get_query_date returned, per module
    \* ---- batch_analysis (stock_monitor_analysis.py)
    symbols,              \* the input list: each entry a symbol and what its analysis will do
    batch_pos,            \* the entry the for loop is at (1-based)
    all_results,          \* the rows collected so far
    batch_df              \* the DataFrame returned: whether it was, and its rows

svars == <<fn, hist, tail, today_col, stock_info, pc, i, j, streak_days,
           today_in_pool, consecutive_failures, fetches, stock_code, query_date_ok, result>>

rvars == <<args, rating_info, advice, m_rating_info, m_advice, clock, rating_again>>

avars == <<limit_feed, open_feed, sell_feed, in_limit_pool, in_zb_pool,
           in_strong_pool, analysis>>

nvars == <<stock_dict, name, resolved>>

(* the groups of the pure functions, left alone by the three computations *)
tvars == <<bar, limit_type, detailed_type>>

qvars == <<now_day, now_hour, trade_calendar, query_date>>

bvars == <<symbols, batch_pos, all_results, batch_df>>

xvars == <<qvars, bvars>>

pvars == <<nvars, tvars, xvars>>

vars == <<svars, rvars, avars, pvars>>

-----------------------------------------------------------------------------
(* Bounds of the model *)
HistLen == 5
MaxProv == 2
MaxTime == 3
MaxEvents == 2
MaxCodes == 3
MaxNameLen == 2
MaxPrevSteps == 9
MaxDrop == 2
MaxHolidays == 1
MaxSymbols == 3

(* Program constants *)
max_days_to_check == 30
max_consecutive_unknown == 5
data_update_hour == 16

-----------------------------------------------------------------------------
(* The limit-pool source as the streak code sees it.                       *)
(*   "sealed"    a DataFrame with a code column that lists the symbol      *)
(*   "unsealed"  a DataFrame with a code column that does not list it      *)
(*   "empty"     None or an empty DataFrame (weekend, holiday, no data)    *)
(*   "error"     the call raises                                           *)
(*   "nocol"     a non-empty DataFrame without any code column             *)
Kinds == {"sealed", "unsealed", "empty", "error", "nocol"}
TailKinds == {"unsealed", "empty", "error"}
Unknown == {"empty", "error"}
Fns == {"calc", "monitor"}

Kind(d) == IF d < HistLen THEN hist[d] ELSE tail

(* get_stock_info(stock_code): raises, or carries 连板数 = n *)
InfoRaised == [status |-> "raise", streak |-> 0]
InfoUnset == [status |-> "unset", streak |-> 0]
InfoOutcomes == {InfoRaised} \cup [status : {"ok"}, streak : 0 .. MaxProv]

(* the field loop: the first numeric field with a value >= 1 is returned *)
ProviderStreak(info) == IF info.status = "ok" /\ info.streak >= 1 THEN info.streak ELSE 0

-----------------------------------------------------------------------------
(* Step 0: the code to analyse. A 6-digit input is the code; any other     *)
(* input goes to get_stock_code_by_name, and when that returns None or     *)
(* cannot be imported the raw text is zero-padded and used as the code.    *)
(* Any other exception of the resolver reaches the outer handler.          *)
(* what the except handlers return: "return 0"; the variant hands back no  *)
(* value, as a call that lets the exception through does                   *)
HandlerReturn_nothing == 0 - 1

HandlerReturn == 0

ResolverOutcomes == {"is_code", "found", "none", "import_error", "raise"}

StockCodeFor(o) ==
    CASE o = "is_code"      -> "input"
      [] o = "found"        -> "resolver"
      [] o = "none"         -> "padded_not_found"
      [] o = "import_error" -> "padded_no_resolver"

ResolveSymbol ==
    /\ pc = "resolve"
    /\ \E o \in ResolverOutcomes :
          IF o = "raise"
             THEN /\ result' = HandlerReturn
                  /\ pc' = "failed"
                  /\ stock_code' = stock_code
             ELSE /\ stock_code' = StockCodeFor(o)
                  /\ pc' = "info"
                  /\ result' = result
    /\ UNCHANGED <<fn, hist, tail, today_col, query_date_ok, stock_info, i, j, streak_days,
                   today_in_pool, consecutive_failures, fetches, rvars, avars, pvars>>

-----------------------------------------------------------------------------
(* Step 1: get_stock_info and the field loop *)
GetStockInfo ==
    /\ pc = "info"
    /\ \E info \in InfoOutcomes :
          /\ stock_info' = info
          /\ IF ProviderStreak(info) >= 1
                THEN /\ result' = ProviderStreak(info)
                     /\ pc' = "done"
                ELSE /\ result' = result
                     /\ pc' = "today"
    /\ UNCHANGED <<fn, hist, tail, today_col, stock_code, query_date_ok, i, j, streak_days,
                   today_in_pool, consecutive_failures, fetches, rvars, avars, pvars>>

(* Step 2: is the symbol in the as-of date's pool *)
TodayColumnUsed(f) == f = "calc"

CheckToday ==
    /\ pc = "today"
    /\ IF ~query_date_ok
          THEN \* datetime.strptime raises: the handler of the fallback method returns 0
               /\ result' = HandlerReturn
               /\ pc' = "failed"
               /\ UNCHANGED <<fetches, today_in_pool, streak_days, i>>
          ELSE /\ fetches' = Append(fetches, 0)
               /\ IF Kind(0) = "sealed"
                     THEN /\ today_in_pool' = TRUE
                          /\ IF TodayColumnUsed(fn) /\ today_col >= 1
                                THEN /\ result' = today_col
                                     /\ pc' = "done"
                                     /\ UNCHANGED <<streak_days, i>>
                                ELSE /\ streak_days' = 1
                                     /\ i' = 1
                                     /\ pc' = "sealed_scan"
                                     /\ result' = result
                     ELSE /\ pc' = "after_sealed"
                          /\ UNCHANGED <<today_in_pool, streak_days, i, result>>
    /\ UNCHANGED <<fn, hist, tail, today_col, stock_code, query_date_ok, stock_info, j, consecutive_failures,
                   rvars, avars, pvars>>

(* Step 3: for i in range(1, max_days_to_check), as-of date sealed *)
CountsFailures(f) == f = "monitor"

FailureLimitHit(f, n) == CountsFailures(f) /\ n > max_consecutive_unknown

(* variants of SealedScanStops: an unsealed day does not end the run; a day without data ends it *)
SealedScanStops_unsealed_skipped(k) == k \in {"nocol"}

SealedScanStops_on_empty(k) == k \in {"unsealed", "nocol", "empty"}

SealedScanStops(k) == k \in {"unsealed", "nocol"}

SealedScanStep ==
    /\ pc = "sealed_scan"
    /\ i < max_days_to_check
    /\ fetches' = Append(fetches, i)
    /\ LET k == Kind(i)
           cf == IF k \in Unknown
                    THEN consecutive_failures + 1
                    ELSE 0
           stop == \/ (k \in Unknown /\ FailureLimitHit(fn, cf))
                   \/ SealedScanStops(k)
       IN  /\ consecutive_failures' = IF CountsFailures(fn) THEN cf ELSE consecutive_failures
           /\ streak_days' = IF k = "sealed" THEN streak_days + 1 ELSE streak_days
           /\ IF stop \/ i + 1 >= max_days_to_check
                 THEN /\ pc' = "after_sealed"
                      /\ i' = i
                 ELSE /\ pc' = "sealed_scan"
                      /\ i' = i + 1
    /\ UNCHANGED <<fn, hist, tail, today_col, stock_code, query_date_ok, stock_info, j, today_in_pool, result,
                   rvars, avars, pvars>>

(* Step 4: if streak_days == 0, look for an earlier sealed day *)
(* variant of NeedsUnsealedScan: no look-back when the as-of date is not sealed *)
NeedsUnsealedScan_never(s) == FALSE

NeedsUnsealedScan(s) == s = 0

AfterSealed ==
    /\ pc = "after_sealed"
    /\ IF NeedsUnsealedScan(streak_days)
          THEN /\ pc' = "outer_scan"
               /\ i' = 0
          ELSE /\ pc' = "return"
               /\ i' = i
    /\ UNCHANGED <<fn, hist, tail, today_col, stock_code, query_date_ok, stock_info, j, streak_days,
                   today_in_pool, consecutive_failures, fetches, result, rvars, avars, pvars>>

(* range(1, max_days_to_check - i): the inner loop stays inside the window *)
(* variant of InnerScanBound: the inner loop takes the full range again *)
InnerScanBound_full(ii) == max_days_to_check

InnerScanBound(ii) == max_days_to_check - ii

(* for i in range(max_days_to_check): first sealed day at or before as-of *)
OuterScanStep ==
    /\ pc = "outer_scan"
    /\ i < max_days_to_check
    /\ fetches' = Append(fetches, i)
    /\ IF Kind(i) = "sealed"
          THEN /\ streak_days' = 1
               /\ j' = 1
               /\ i' = i
               /\ pc' = IF 1 < InnerScanBound(i) THEN "inner_scan" ELSE "return"
          ELSE /\ UNCHANGED <<streak_days, j>>
               /\ IF i + 1 >= max_days_to_check
                     THEN /\ pc' = "return"
                          /\ i' = i
                     ELSE /\ pc' = "outer_scan"
                          /\ i' = i + 1
    /\ UNCHANGED <<fn, hist, tail, today_col, stock_code, query_date_ok, stock_info, today_in_pool,
                   consecutive_failures, result, rvars, avars, pvars>>

(* for j in range(1, max_days_to_check - i): count the run behind that day *)
InnerScanStops(k) == k \in {"unsealed", "error"}

InnerScanStep ==
    /\ pc = "inner_scan"
    /\ j < InnerScanBound(i)
    /\ fetches' = Append(fetches, i + j)
    /\ LET k == Kind(i + j)
       IN  /\ streak_days' = IF k = "sealed" THEN streak_days + 1 ELSE streak_days
           /\ IF InnerScanStops(k) \/ j + 1 >= InnerScanBound(i)
                 THEN /\ pc' = "return"
                      /\ j' = j
                 ELSE /\ pc' = "inner_scan"
                      /\ j' = j + 1
    /\ UNCHANGED <<fn, hist, tail, today_col, stock_code, query_date_ok, stock_info, i, today_in_pool,
                   consecutive_failures, result, rvars, avars, pvars>>

Return ==
    /\ pc = "return"
    /\ result' = streak_days
    /\ pc' = "done"
    /\ UNCHANGED <<fn, hist, tail, today_col, stock_code, query_date_ok, stock_info, i, j, streak_days,
                   today_in_pool, consecutive_failures, fetches, rvars, avars, pvars>>

-----------------------------------------------------------------------------
-----------------------------------------------------------------------------
(* Rating and advice: stock_rating_advisor.py and the copies kept in       *)
(* StockMonitorAnalysis. A call's flags are a record a.                    *)

Flags == [is_limit_up : BOOLEAN, has_open_limit : BOOLEAN, has_big_sell : BOOLEAN,
          is_in_zb_pool : BOOLEAN, is_in_strong_pool : BOOLEAN,
          has_re_limit : BOOLEAN, is_one_word_limit : BOOLEAN]

Verdict(r, d) == [rating |-> r, description |-> d]

NoRating == Verdict("none", "none")

(* variants of generate_rating: the plain-limit rule forgets the leak; the one-word rule comes first; no final else *)
generate_rating_a_ignores_leak(a) ==
    IF a.has_open_limit /\ ~a.has_re_limit
        THEN Verdict("D-", "broke, not resealed, weak")
    ELSE IF a.is_one_word_limit
        THEN IF ~a.has_big_sell /\ ~a.is_in_zb_pool
                THEN Verdict("A++", "one-word limit, very strong seal, no leak")
                ELSE Verdict("A+", "one-word limit, watch anomalies")
    ELSE IF a.is_limit_up /\ ~a.has_open_limit /\ ~a.is_in_zb_pool /\ ~a.has_big_sell
            /\ a.is_in_strong_pool
        THEN Verdict("A+", "strong limit, solid seal, no leak, strong stock")
    ELSE IF a.is_limit_up /\ ~a.has_open_limit /\ ~a.is_in_zb_pool
        THEN Verdict("A", "strong limit, solid seal, no leak")
    ELSE IF a.is_limit_up /\ a.has_re_limit /\ ~a.has_big_sell /\ a.is_in_strong_pool
        THEN Verdict("A-", "resealed after break, no leak, strong stock")
    ELSE IF a.is_limit_up /\ a.has_re_limit /\ ~a.has_big_sell
        THEN Verdict("B+", "resealed after break, no leak")
    ELSE IF a.is_limit_up /\ a.is_in_strong_pool
        THEN Verdict("B", "limit and strong stock, watch anomalies")
    ELSE IF a.is_limit_up
        THEN Verdict("B-", "limit, watch anomalies")
    ELSE IF a.is_in_strong_pool /\ ~a.is_in_zb_pool
        THEN Verdict("C+", "no limit, strong stock")
    ELSE IF a.is_in_strong_pool
        THEN Verdict("C", "strong stock, break risk")
    ELSE IF a.has_big_sell
        THEN Verdict("E", "big sell (leak)")
    ELSE Verdict("F", "no notable change")

generate_rating_one_word_first(a) ==
    IF a.is_one_word_limit
        THEN IF ~a.has_big_sell /\ ~a.is_in_zb_pool
                THEN Verdict("A++", "one-word limit, very strong seal, no leak")
                ELSE Verdict("A+", "one-word limit, watch anomalies")
    ELSE IF a.has_open_limit /\ ~a.has_re_limit
        THEN Verdict("D-", "broke, not resealed, weak")
    ELSE IF a.is_limit_up /\ ~a.has_open_limit /\ ~a.is_in_zb_pool /\ ~a.has_big_sell
            /\ a.is_in_strong_pool
        THEN Verdict("A+", "strong limit, solid seal, no leak, strong stock")
    ELSE IF a.is_limit_up /\ ~a.has_open_limit /\ ~a.is_in_zb_pool /\ ~a.has_big_sell
        THEN Verdict("A", "strong limit, solid seal, no leak")
    ELSE IF a.is_limit_up /\ a.has_re_limit /\ ~a.has_big_sell /\ a.is_in_strong_pool
        THEN Verdict("A-", "resealed after break, no leak, strong stock")
    ELSE IF a.is_limit_up /\ a.has_re_limit /\ ~a.has_big_sell
        THEN Verdict("B+", "resealed after break, no leak")
    ELSE IF a.is_limit_up /\ a.is_in_strong_pool
        THEN Verdict("B", "limit and strong stock, watch anomalies")
    ELSE IF a.is_limit_up
        THEN Verdict("B-", "limit, watch anomalies")
    ELSE IF a.is_in_strong_pool /\ ~a.is_in_zb_pool
        THEN Verdict("C+", "no limit, strong stock")
    ELSE IF a.is_in_strong_pool
        THEN Verdict("C", "strong stock, break risk")
    ELSE IF a.has_big_sell
        THEN Verdict("E", "big sell (leak)")
    ELSE Verdict("F", "no notable change")

generate_rating_no_else(a) ==
    IF a.has_open_limit /\ ~a.has_re_limit
        THEN Verdict("D-", "broke, not resealed, weak")
    ELSE IF a.is_one_word_limit
        THEN IF ~a.has_big_sell /\ ~a.is_in_zb_pool
                THEN Verdict("A++", "one-word limit, very strong seal, no leak")
                ELSE Verdict("A+", "one-word limit, watch anomalies")
    ELSE IF a.is_limit_up /\ ~a.has_open_limit /\ ~a.is_in_zb_pool /\ ~a.has_big_sell
            /\ a.is_in_strong_pool
        THEN Verdict("A+", "strong limit, solid seal, no leak, strong stock")
    ELSE IF a.is_limit_up /\ ~a.has_open_limit /\ ~a.is_in_zb_pool /\ ~a.has_big_sell
        THEN Verdict("A", "strong limit, solid seal, no leak")
    ELSE IF a.is_limit_up /\ a.has_re_limit /\ ~a.has_big_sell /\ a.is_in_strong_pool
        THEN Verdict("A-", "resealed after break, no leak, strong stock")
    ELSE IF a.is_limit_up /\ a.has_re_limit /\ ~a.has_big_sell
        THEN Verdict("B+", "resealed after break, no leak")
    ELSE IF a.is_limit_up /\ a.is_in_strong_pool
        THEN Verdict("B", "limit and strong stock, watch anomalies")
    ELSE IF a.is_limit_up
        THEN Verdict("B-", "limit, watch anomalies")
    ELSE IF a.is_in_strong_pool /\ ~a.is_in_zb_pool
        THEN Verdict("C+", "no limit, strong stock")
    ELSE IF a.is_in_strong_pool
        THEN Verdict("C", "strong stock, break risk")
    ELSE IF a.has_big_sell
        THEN Verdict("E", "big sell (leak)")
    ELSE Verdict("None", "None")

(* further variants of generate_rating: the A rule asks for a leak; the strong-stock rule B comes before the reseal rules *)
generate_rating_a_requires_leak(a) ==
    IF a.has_open_limit /\ ~a.has_re_limit
        THEN Verdict("D-", "broke, not resealed, weak")
    ELSE IF a.is_one_word_limit
        THEN IF ~a.has_big_sell /\ ~a.is_in_zb_pool
                THEN Verdict("A++", "one-word limit, very strong seal, no leak")
                ELSE Verdict("A+", "one-word limit, watch anomalies")
    ELSE IF a.is_limit_up /\ ~a.has_open_limit /\ ~a.is_in_zb_pool /\ ~a.has_big_sell
            /\ a.is_in_strong_pool
        THEN Verdict("A+", "strong limit, solid seal, no leak, strong stock")
    ELSE IF a.is_limit_up /\ ~a.has_open_limit /\ ~a.is_in_zb_pool /\ a.has_big_sell
        THEN Verdict("A", "strong limit, solid seal, no leak")
    ELSE IF a.is_limit_up /\ a.has_re_limit /\ ~a.has_big_sell /\ a.is_in_strong_pool
        THEN Verdict("A-", "resealed after break, no leak, strong stock")
    ELSE IF a.is_limit_up /\ a.has_re_limit /\ ~a.has_big_sell
        THEN Verdict("B+", "resealed after break, no leak")
    ELSE IF a.is_limit_up /\ a.is_in_strong_pool
        THEN Verdict("B", "limit and strong stock, watch anomalies")
    ELSE IF a.is_limit_up
        THEN Verdict("B-", "limit, watch anomalies")
    ELSE IF a.is_in_strong_pool /\ ~a.is_in_zb_pool
        THEN Verdict("C+", "no limit, strong stock")
    ELSE IF a.is_in_strong_pool
        THEN Verdict("C", "strong stock, break risk")
    ELSE IF a.has_big_sell
        THEN Verdict("E", "big sell (leak)")
    ELSE Verdict("F", "no notable change")

generate_rating_strong_rule_early(a) ==
    IF a.has_open_limit /\ ~a.has_re_limit
        THEN Verdict("D-", "broke, not resealed, weak")
    ELSE IF a.is_one_word_limit
        THEN IF ~a.has_big_sell /\ ~a.is_in_zb_pool
                THEN Verdict("A++", "one-word limit, very strong seal, no leak")
                ELSE Verdict("A+", "one-word limit, watch anomalies")
    ELSE IF a.is_limit_up /\ ~a.has_open_limit /\ ~a.is_in_zb_pool /\ ~a.has_big_sell
            /\ a.is_in_strong_pool
        THEN Verdict("A+", "strong limit, solid seal, no leak, strong stock")
    ELSE IF a.is_limit_up /\ ~a.has_open_limit /\ ~a.is_in_zb_pool /\ ~a.has_big_sell
        THEN Verdict("A", "strong limit, solid seal, no leak")
    ELSE IF a.is_limit_up /\ a.is_in_strong_pool
        THEN Verdict("B", "limit and strong stock, watch anomalies")
    ELSE IF a.is_limit_up /\ a.has_re_limit /\ ~a.has_big_sell /\ a.is_in_strong_pool
        THEN Verdict("A-", "resealed after break, no leak, strong stock")
    ELSE IF a.is_limit_up /\ a.has_re_limit /\ ~a.has_big_sell
        THEN Verdict("B+", "resealed after break, no leak")
    ELSE IF a.is_limit_up
        THEN Verdict("B-", "limit, watch anomalies")
    ELSE IF a.is_in_strong_pool /\ ~a.is_in_zb_pool
        THEN Verdict("C+", "no limit, strong stock")
    ELSE IF a.is_in_strong_pool
        THEN Verdict("C", "strong stock, break risk")
    ELSE IF a.has_big_sell
        THEN Verdict("E", "big sell (leak)")
    ELSE Verdict("F", "no notable change")

generate_rating(a) ==
    IF a.has_open_limit /\ ~a.has_re_limit
        THEN Verdict("D-", "broke, not resealed, weak")
    ELSE IF a.is_one_word_limit
        THEN IF ~a.has_big_sell /\ ~a.is_in_zb_pool
                THEN Verdict("A++", "one-word limit, very strong seal, no leak")
                ELSE Verdict("A+", "one-word limit, watch anomalies")
    ELSE IF a.is_limit_up /\ ~a.has_open_limit /\ ~a.is_in_zb_pool /\ ~a.has_big_sell
            /\ a.is_in_strong_pool
        THEN Verdict("A+", "strong limit, solid seal, no leak, strong stock")
    ELSE IF a.is_limit_up /\ ~a.has_open_limit /\ ~a.is_in_zb_pool /\ ~a.has_big_sell
        THEN Verdict("A", "strong limit, solid seal, no leak")
    ELSE IF a.is_limit_up /\ a.has_re_limit /\ ~a.has_big_sell /\ a.is_in_strong_pool
        THEN Verdict("A-", "resealed after break, no leak, strong stock")
    ELSE IF a.is_limit_up /\ a.has_re_limit /\ ~a.has_big_sell
        THEN Verdict("B+", "resealed after break, no leak")
    ELSE IF a.is_limit_up /\ a.is_in_strong_pool
        THEN Verdict("B", "limit and strong stock, watch anomalies")
    ELSE IF a.is_limit_up
        THEN Verdict("B-", "limit, watch anomalies")
    ELSE IF a.is_in_strong_pool /\ ~a.is_in_zb_pool
        THEN Verdict("C+", "no limit, strong stock")
    ELSE IF a.is_in_strong_pool
        THEN Verdict("C", "strong stock, break risk")
    ELSE IF a.has_big_sell
        THEN Verdict("E", "big sell (leak)")
    ELSE Verdict("F", "no notable change")

generate_investment_advice(a) ==
    IF a.has_open_limit /\ ~a.has_re_limit
        THEN "broke, not resealed, weak: avoid"
    ELSE IF a.is_one_word_limit
        THEN IF ~a.has_big_sell /\ ~a.is_in_zb_pool
                THEN "one-word limit, very strong seal: mind next-day open risk"
                ELSE "one-word limit with anomalies: watch closely"
    ELSE IF a.is_limit_up /\ ~a.has_open_limit /\ ~a.is_in_zb_pool /\ ~a.has_big_sell
            /\ a.is_in_strong_pool
        THEN "excellent seal: hold or join moderately"
    ELSE IF a.is_limit_up /\ ~a.has_open_limit /\ ~a.is_in_zb_pool
        THEN "solid seal: watch next day"
    ELSE IF a.is_limit_up /\ a.has_re_limit /\ ~a.has_big_sell /\ a.is_in_strong_pool
        THEN "resealed after break, strong support: watch carefully"
    ELSE IF a.is_limit_up /\ a.has_re_limit /\ ~a.has_big_sell
        THEN "resealed after break, some support: mind the risk"
    ELSE IF a.is_limit_up /\ a.is_in_strong_pool
        THEN "limit and strong stock, mind anomalies: join carefully"
    ELSE IF a.is_limit_up
        THEN "limit, beware anomalies: observe"
    ELSE IF a.is_in_strong_pool /\ ~a.is_in_zb_pool
        THEN "no limit, strong stock: watch pullback"
    ELSE IF a.is_in_strong_pool
        THEN "strong stock, break risk"
    ELSE IF a.has_big_sell
        THEN "leak, main force may exit: avoid"
    ELSE "no obvious change: keep observing"

(* StockMonitorAnalysis._generate_rating: six flags, no one-word rule *)
_generate_rating(a) ==
    IF a.has_open_limit /\ ~a.has_re_limit
        THEN Verdict("D-", "broke, not resealed, weak")
    ELSE IF a.is_limit_up /\ ~a.has_open_limit /\ ~a.is_in_zb_pool /\ ~a.has_big_sell
            /\ a.is_in_strong_pool
        THEN Verdict("A+", "strong limit, solid seal, no leak, strong stock")
    ELSE IF a.is_limit_up /\ ~a.has_open_limit /\ ~a.is_in_zb_pool /\ ~a.has_big_sell
        THEN Verdict("A", "strong limit, solid seal, no leak")
    ELSE IF a.is_limit_up /\ a.has_re_limit /\ ~a.has_big_sell /\ a.is_in_strong_pool
        THEN Verdict("A-", "resealed after break, no leak, strong stock")
    ELSE IF a.is_limit_up /\ a.has_re_limit /\ ~a.has_big_sell
        THEN Verdict("B+", "resealed after break, no leak")
    ELSE IF a.is_limit_up /\ a.is_in_strong_pool
        THEN Verdict("B", "limit and strong stock, watch anomalies")
    ELSE IF a.is_limit_up
        THEN Verdict("B-", "limit, watch anomalies")
    ELSE IF a.is_in_strong_pool /\ ~a.is_in_zb_pool
        THEN Verdict("C+", "no limit, strong stock")
    ELSE IF a.is_in_strong_pool
        THEN Verdict("C", "strong stock, break risk")
    ELSE IF a.has_big_sell
        THEN Verdict("E", "big sell (leak)")
    ELSE Verdict("F", "no notable change")

(* variant of _generate_investment_advice: the solid-seal rule asks for no leak, as the rating does *)
_generate_investment_advice_checks_leak(a) ==
    IF a.has_open_limit /\ ~a.has_re_limit
        THEN "broke, not resealed, weak: avoid"
    ELSE IF a.is_limit_up /\ ~a.has_open_limit /\ ~a.is_in_zb_pool /\ ~a.has_big_sell
            /\ a.is_in_strong_pool
        THEN "excellent seal: hold or join moderately"
    ELSE IF a.is_limit_up /\ ~a.has_open_limit /\ ~a.is_in_zb_pool /\ ~a.has_big_sell
        THEN "solid seal: watch next day"
    ELSE IF a.is_limit_up /\ a.has_re_limit /\ ~a.has_big_sell /\ a.is_in_strong_pool
        THEN "resealed after break, strong support: watch carefully"
    ELSE IF a.is_limit_up /\ a.has_re_limit /\ ~a.has_big_sell
        THEN "resealed after break, some support: mind the risk"
    ELSE IF a.is_limit_up /\ a.is_in_strong_pool
        THEN "limit and strong stock, mind anomalies: join carefully"
    ELSE IF a.is_limit_up
        THEN "limit, beware anomalies: observe"
    ELSE IF a.is_in_strong_pool /\ ~a.is_in_zb_pool
        THEN "no limit, strong stock: watch pullback"
    ELSE IF a.is_in_strong_pool
        THEN "strong stock, break risk"
    ELSE IF a.has_big_sell
        THEN "leak, main force may exit: avoid"
    ELSE "no obvious change: keep observing"

_generate_investment_advice(a) ==
    IF a.has_open_limit /\ ~a.has_re_limit
        THEN "broke, not resealed, weak: avoid"
    ELSE IF a.is_limit_up /\ ~a.has_open_limit /\ ~a.is_in_zb_pool /\ ~a.has_big_sell
            /\ a.is_in_strong_pool
        THEN "excellent seal: hold or join moderately"
    ELSE IF a.is_limit_up /\ ~a.has_open_limit /\ ~a.is_in_zb_pool
        THEN "solid seal: watch next day"
    ELSE IF a.is_limit_up /\ a.has_re_limit /\ ~a.has_big_sell /\ a.is_in_strong_pool
        THEN "resealed after break, strong support: watch carefully"
    ELSE IF a.is_limit_up /\ a.has_re_limit /\ ~a.has_big_sell
        THEN "resealed after break, some support: mind the risk"
    ELSE IF a.is_limit_up /\ a.is_in_strong_pool
        THEN "limit and strong stock, mind anomalies: join carefully"
    ELSE IF a.is_limit_up
        THEN "limit, beware anomalies: observe"
    ELSE IF a.is_in_strong_pool /\ ~a.is_in_zb_pool
        THEN "no limit, strong stock: watch pullback"
    ELSE IF a.is_in_strong_pool
        THEN "strong stock, break risk"
    ELSE IF a.has_big_sell
        THEN "leak, main force may exit: avoid"
    ELSE "no obvious change: keep observing"

CallGenerateRating ==
    /\ rating_info = NoRating
    /\ rating_info' = generate_rating(args)
    /\ UNCHANGED <<args, advice, m_rating_info, m_advice, clock, rating_again, svars, avars, pvars>>

CallGenerateInvestmentAdvice ==
    /\ advice = "none"
    /\ advice' = generate_investment_advice(args)
    /\ UNCHANGED <<args, rating_info, m_rating_info, m_advice, clock, rating_again, svars, avars, pvars>>

CallMonitorGenerateRating ==
    /\ m_rating_info = NoRating
    /\ m_rating_info' = _generate_rating(args)
    /\ UNCHANGED <<args, rating_info, advice, m_advice, clock, rating_again, svars, avars, pvars>>

CallMonitorGenerateInvestmentAdvice ==
    /\ m_advice = "none"
    /\ m_advice' = _generate_investment_advice(args)
    /\ UNCHANGED <<args, rating_info, advice, m_rating_info, clock, rating_again, svars, avars, pvars>>

(* time passes between two calls *)
Tick ==
    /\ rating_again = NoRating
    /\ clock' = ~clock
    /\ UNCHANGED <<args, rating_info, advice, m_rating_info, m_advice, rating_again, svars, avars, pvars>>

CallGenerateRatingAgain ==
    /\ rating_info # NoRating
    /\ rating_again = NoRating
    /\ rating_again' = generate_rating(args)
    /\ UNCHANGED <<args, rating_info, advice, m_rating_info, m_advice, clock, svars, avars, pvars>>

RatingIdle ==
    /\ args = [f \in DOMAIN CHOOSE a \in Flags : TRUE |-> FALSE]
    /\ rating_info = NoRating
    /\ advice = "none"
    /\ m_rating_info = NoRating
    /\ m_advice = "none"
    /\ clock = FALSE
    /\ rating_again = NoRating

-----------------------------------------------------------------------------
(* One day's intraday feeds and pools, and comprehensive_stock_analysis.   *)
(* A 时间 value is 0 for a text no format parses and 1 .. MaxTime for the  *)
(* "HH:MM:SS" strings in chronological order (1 = the session's open).     *)
(* A break row may also come without a time (None, dropped from the list   *)
(* of break times) or with the empty text; in the seal and sell feeds such *)
(* a row has the effect of a row that is absent or does not parse.         *)

TimeTokens == 0 .. MaxTime

NoTime == 0 - 1

EmptyText == 0 - 2

Feeds == UNION {[1 .. n -> TimeTokens] : n \in 0 .. MaxEvents}

OpenFeeds == UNION {[1 .. n -> TimeTokens \cup {NoTime, EmptyText}] : n \in 0 .. MaxEvents}

SellFeeds == {<<>>} \cup {<<t>> : t \in TimeTokens}

(* None when the text does not parse, else the datetime *)
_parse_time_to_datetime(t) == IF t >= 1 THEN t ELSE NoTime

(* True without tick data, else True iff check_time parses as %H:%M:%S *)
_check_leak_condition(t) == t >= 1

(* is the last seal later than the last break *)
ResealedByTime(last_limit_dt, last_open_dt) == last_limit_dt > last_open_dt

(* if t is not None *)
HasTime(t) == t # NoTime

analyze_limit_up_changes(limit_up_times, open_limit_rows, big_sell_rows, is_in_limit_pool) ==
    LET is_limit_up == Len(limit_up_times) > 0
        has_open_limit == Len(open_limit_rows) > 0
        open_limit_times == SelectSeq(open_limit_rows, HasTime)
        last_limit_time == limit_up_times[Len(limit_up_times)]
        last_open_time == open_limit_times[Len(open_limit_times)]
        last_limit_dt == _parse_time_to_datetime(last_limit_time)
        last_open_dt == _parse_time_to_datetime(last_open_time)
        \* <<base_limit_time, has_re_limit>>
        base_re ==
            IF ~is_limit_up THEN <<NoTime, FALSE>>
            ELSE IF has_open_limit /\ open_limit_times # <<>>
                THEN IF last_open_time = EmptyText
                        THEN <<limit_up_times[1], FALSE>>
                     ELSE IF last_limit_dt # NoTime /\ last_open_dt # NoTime
                        THEN IF ResealedByTime(last_limit_dt, last_open_dt)
                                THEN <<last_limit_time, TRUE>>
                             ELSE IF is_in_limit_pool
                                THEN <<last_limit_time, TRUE>>
                             ELSE <<NoTime, FALSE>>
                        ELSE <<NoTime, FALSE>>
                ELSE <<limit_up_times[1], is_in_limit_pool>>
        base_limit_time == base_re[1]
        has_re_limit == base_re[2]
        base_limit_datetime ==
            IF base_limit_time = NoTime THEN NoTime
            ELSE _parse_time_to_datetime(base_limit_time)
        has_big_sell ==
            /\ base_limit_time # NoTime
            /\ \E k \in 1 .. Len(big_sell_rows) :
                  LET big_sell_datetime == _parse_time_to_datetime(big_sell_rows[k])
                  IN  /\ base_limit_datetime # NoTime
                      /\ big_sell_datetime # NoTime
                      /\ big_sell_datetime > base_limit_datetime
                      /\ _check_leak_condition(big_sell_rows[k])
    IN  [is_limit_up |-> is_limit_up,
         has_open_limit |-> has_open_limit,
         open_count |-> Len(open_limit_times),
         has_re_limit |-> has_re_limit,
         re_limit_time |-> IF has_re_limit THEN base_limit_time ELSE NoTime,
         has_big_sell |-> has_big_sell,
         is_in_limit_pool |-> is_in_limit_pool]

(* the flags comprehensive_stock_analysis hands to the rating and advice *)
RatingFlags(change_analysis, zb, strong) ==
    [is_limit_up |-> change_analysis.is_limit_up,
     has_open_limit |-> change_analysis.has_open_limit,
     has_big_sell |-> change_analysis.has_big_sell,
     is_in_zb_pool |-> zb,
     is_in_strong_pool |-> strong,
     has_re_limit |-> change_analysis.has_re_limit]

comprehensive_stock_analysis(lf, of, sf, pool, zb, strong) ==
    LET change_analysis == analyze_limit_up_changes(lf, of, sf, pool)
        a == RatingFlags(change_analysis, zb, strong)
        rated == _generate_rating(a)
    IN  [rating |-> rated.rating,
         description |-> rated.description,
         advice |-> _generate_investment_advice(a),
         change_analysis |-> change_analysis,
         in_zb_pool |-> zb,
         key_is_limit_up |-> a.is_limit_up,
         key_has_broken |-> a.has_open_limit \/ zb,
         key_has_big_sell |-> a.has_big_sell,
         key_has_re_limit |-> a.has_re_limit,
         key_is_strong |-> strong,
         key_final_is_limit_up |->
             \/ change_analysis.is_in_limit_pool
             \/ (a.is_limit_up /\ ~a.has_open_limit)
             \/ (a.has_open_limit /\ a.has_re_limit)]

NoAnalysis == [rating |-> "none"]

ComprehensiveStockAnalysis ==
    /\ analysis = NoAnalysis
    /\ analysis' = comprehensive_stock_analysis(limit_feed, open_feed, sell_feed,
                                                in_limit_pool, in_zb_pool, in_strong_pool)
    /\ UNCHANGED <<limit_feed, open_feed, sell_feed, in_limit_pool, in_zb_pool,
                   in_strong_pool, svars, rvars, pvars>>

AnalysisIdle ==
    /\ limit_feed = <<>>
    /\ open_feed = <<>>
    /\ sell_feed = <<>>
    /\ in_limit_pool = FALSE
    /\ in_zb_pool = FALSE
    /\ in_strong_pool = FALSE
    /\ analysis = NoAnalysis

-----------------------------------------------------------------------------
(* Name resolution: StockNameResolver over a stock_dict of MaxCodes codes  *)
(* whose names are texts of 1 .. MaxNameLen characters. Codes are numbered *)
(* in the insertion order of stock_dict.                                   *)
NameChars == {"a", "b"}

Names == UNION {[1 .. n -> NameChars] : n \in 1 .. MaxNameLen}

Codes == 1 .. MaxCodes

(* name in stock_name *)
Contains(nm, stock_name) ==
    \E k \in 0 .. Len(stock_name) - Len(nm) :
        SubSeq(stock_name, k + 1, k + Len(nm)) = nm

(* the initials of a text are its characters: word[0] of each character *)
_match_pinyin_initials(input_str, stock_name) == Contains(input_str, stock_name)

(* name_to_codes[nm]: the codes named nm, in insertion order *)
RECURSIVE CodesOf(_, _, _)
CodesOf(dict, nm, c) ==
    IF c > MaxCodes THEN <<>>
    ELSE (IF dict[c] = nm THEN <<c>> ELSE <<>>) \o CodesOf(dict, nm, c + 1)

(* the keys of name_to_codes, in insertion order *)
RECURSIVE NameKeys(_, _)
NameKeys(dict, c) ==
    IF c > MaxCodes THEN <<>>
    ELSE (IF \E b \in 1 .. c - 1 : dict[b] = dict[c] THEN <<>> ELSE <<dict[c]>>)
            \o NameKeys(dict, c + 1)

InSeq(x, sq) == \E k \in 1 .. Len(sq) : sq[k] = x

RECURSIVE AppendNew(_, _)
AppendNew(results, cs) ==
    IF cs = <<>> THEN results
    ELSE AppendNew(IF InSeq(Head(cs), results) THEN results ELSE Append(results, Head(cs)),
                   Tail(cs))

(* for stock_name, codes in name_to_codes.items(): if name in stock_name: ... *)
RECURSIVE ContainingMatches(_, _, _, _, _)
ContainingMatches(dict, nm, keys, results, pinyin) ==
    IF keys = <<>> THEN results
    ELSE LET stock_name == Head(keys)
             hit == IF pinyin THEN _match_pinyin_initials(nm, stock_name)
                              ELSE Contains(nm, stock_name)
         IN  ContainingMatches(dict, nm, Tail(keys),
                               IF hit THEN AppendNew(results, CodesOf(dict, stock_name, 1))
                                      ELSE results,
                               pinyin)

search_by_name(dict, nm, max_results) ==
    IF nm = <<>> THEN <<>>
    ELSE LET keys == NameKeys(dict, 1)
             exact == IF InSeq(nm, keys) THEN CodesOf(dict, nm, 1) ELSE <<>>
             part == IF Len(exact) < max_results
                        THEN ContainingMatches(dict, nm, keys, exact, FALSE)
                        ELSE exact
             all == IF Len(part) < max_results /\ Len(nm) <= 4
                       THEN ContainingMatches(dict, nm, keys, part, TRUE)
                       ELSE part
         IN  SubSeq(all, 1, IF Len(all) < max_results THEN Len(all) ELSE max_results)

Found(c) == [status |-> "code", code |-> c]
NotFound == [status |-> "none", code |-> 0]
NotResolved == [status |-> "unset", code |-> 0]

get_stock_code(dict, nm) ==
    LET results == search_by_name(dict, nm, 1)
    IN  IF results # <<>> THEN Found(results[1]) ELSE NotFound

GetStockCodeByName ==
    /\ resolved = NotResolved
    /\ resolved' = get_stock_code(stock_dict, name)
    /\ UNCHANGED <<stock_dict, name, tvars, xvars, svars, rvars, avars>>

ResolverIdle ==
    /\ stock_dict = [c \in Codes |-> <<"a">>]
    /\ name = <<>>
    /\ resolved = NotResolved

-----------------------------------------------------------------------------
(* Limit-type classification of a daily bar of a 10% board. Prices are     *)
(* integer cents, pct_change is the percentage the feed gives with two     *)
(* decimals, held in hundredths of a percent.                              *)
LowestPrevClose == 1000

PrevCloses == LowestPrevClose .. LowestPrevClose + MaxPrevSteps

(* the exchange's cap: the previous close plus 10%, rounded to the cent *)
LimitPrice(prev_close) == (prev_close * 11 + 5) \div 10

(* (close - prev_close) / prev_close * 100, rounded to two decimals *)
PctChange(b) == (2 * (b.close - b.prev_close) * 10000 + b.prev_close) \div (2 * b.prev_close)

(* the bars of one previous close: prices within MaxDrop cents of the cap *)
BarsOf(prev_close) ==
    LET Prices == LimitPrice(prev_close) - MaxDrop .. LimitPrice(prev_close)
    IN  {b \in [prev_close : {prev_close}, open : Prices, high : Prices,
                low : Prices, close : Prices] :
            /\ b.low <= b.open /\ b.low <= b.close
            /\ b.open <= b.high /\ b.close <= b.high}

Bars == UNION {BarsOf(prev_close) : prev_close \in PrevCloses}

Abs(x) == IF x < 0 THEN 0 - x ELSE x

(* abs(pct_change - 10.0) < 0.5 or pct_change >= 9.8 *)
_is_limit_up(pct_change) == Abs(pct_change - 1000) < 50 \/ pct_change >= 980

(* abs(x - y) < 0.01 for two prices in cents *)
WithinCent(x, y) == Abs(x - y) < 1

(* abs(x - limit_price) < 0.01 with                                        *)
(* limit_price = close_price / (1 + pct_change/100) * 1.1                  *)
WithinCentOfComputedLimit(x, close_price, pct_change) ==
    Abs(x * (10000 + pct_change) - close_price * 11000) < 10000 + pct_change

(* prev_close = close_price / 1.1, and prev_close * 1.1 is close_price again *)
_get_limit_type(row) ==
    IF ~_is_limit_up(PctChange(row)) THEN "not limit-up"
    ELSE IF WithinCent(row.open, row.high) /\ WithinCent(row.open, row.close)
        THEN "one-word"
    ELSE IF WithinCent(row.open, row.high) /\ row.low < row.open
        THEN "T"
    ELSE "ordinary"

_get_detailed_history(row) ==
    LET pct_change == PctChange(row)
    IN  IF ~_is_limit_up(pct_change) THEN "not limit-up"
        ELSE IF /\ WithinCentOfComputedLimit(row.open, row.close, pct_change)
                /\ WithinCentOfComputedLimit(row.high, row.close, pct_change)
            THEN "one-word"
        ELSE IF WithinCentOfComputedLimit(row.high, row.close, pct_change) /\ row.low < row.open
            THEN "T"
        ELSE "ordinary"

GetLimitType ==
    /\ limit_type = "unset"
    /\ limit_type' = _get_limit_type(bar)
    /\ UNCHANGED <<bar, detailed_type, nvars, xvars, svars, rvars, avars>>

GetDetailedHistory ==
    /\ detailed_type = "unset"
    /\ detailed_type' = _get_detailed_history(bar)
    /\ UNCHANGED <<bar, limit_type, nvars, xvars, svars, rvars, avars>>

LimitTypeIdle ==
    /\ bar = [prev_close |-> LowestPrevClose, open |-> LowestPrevClose, high |-> LowestPrevClose,
              low |-> LowestPrevClose, close |-> LowestPrevClose]
    /\ limit_type = "unset"
    /\ detailed_type = "unset"

-----------------------------------------------------------------------------
(* The query date. A date is a day number, day 0 being a Monday, so that   *)
(* timedelta(days=n) is a subtraction and the '%Y%m%d' texts compare as    *)
(* the numbers do; current_time is the Shanghai time taken at construction *)
Weekday(d) == d % 7

Todays == 7 .. 13

Hours == {0, 15, 16, 23}

NoDate == 0 - 1

MonitorModules == {"StockMonitorAnalysis", "StockMonitorChanges", "StockMonitorPool",
                   "StockMonitorBase"}

Modules == MonitorModules \cup {"StockDataFetcher"}

(* the trading calendar: the weekdays but for some holidays, or no answer  *)
(* from either interface                                                   *)
Workdays == {d \in 0 .. 20 : Weekday(d) < 5}

HolidaySets == {h \in SUBSET (Workdays \cap (0 .. 13)) : Cardinality(h) <= MaxHolidays}

CalendarFailed == [status |-> "failed", trade_dates |-> {}]

Calendars == {CalendarFailed} \cup {[status |-> "ok", trade_dates |-> Workdays \ h] : h \in HolidaySets}

MaxOf(S) == CHOOSE x \in S : \A y \in S : y <= x

(* Monday gives Friday, Sunday gives Friday, any other day the day before *)
_simple_previous_date(d) ==
    IF Weekday(d) = 0 THEN d - 3
    ELSE IF Weekday(d) = 6 THEN d - 2
    ELSE d - 1

(* StockDataFetcher.get_previous_trading_date *)
get_previous_trading_date(cal, d) ==
    IF cal.status = "failed" THEN _simple_previous_date(d)
    ELSE LET upto == {t \in cal.trade_dates : t <= d}
             before == {t \in cal.trade_dates : t < d}
         IN  IF upto = {} THEN _simple_previous_date(d)
             ELSE IF MaxOf(upto) = d /\ before # {} THEN MaxOf(before)
             ELSE MaxOf(upto)

(* get_query_date of the four monitor classes: the calendar day before *)
MonitorQueryDate(day, hour) ==
    IF hour < data_update_hour THEN day - 1 ELSE day

(* StockDataFetcher.get_query_date *)
FetcherQueryDate(cal, day, hour) ==
    IF hour < data_update_hour THEN get_previous_trading_date(cal, day) ELSE day

MonitorGetQueryDate ==
    /\ \E m \in MonitorModules :
          /\ query_date[m] = NoDate
          /\ query_date' = [query_date EXCEPT ![m] = MonitorQueryDate(now_day, now_hour)]
    /\ UNCHANGED <<now_day, now_hour, trade_calendar, bvars, nvars, tvars, svars, rvars, avars>>

FetcherGetQueryDate ==
    /\ query_date["StockDataFetcher"] = NoDate
    /\ query_date' = [query_date EXCEPT
                         !["StockDataFetcher"] = FetcherQueryDate(trade_calendar, now_day, now_hour)]
    /\ UNCHANGED <<now_day, now_hour, trade_calendar, bvars, nvars, tvars, svars, rvars, avars>>

QueryDateIdle ==
    /\ now_day = 7
    /\ now_hour = 0
    /\ trade_calendar = CalendarFailed
    /\ query_date = [m \in Modules |-> NoDate]

-----------------------------------------------------------------------------
(* batch_analysis: one step per entry of the input list. An entry's call   *)
(* of comprehensive_stock_analysis returns its result ("ok"), returns the  *)
(* error result of its own handler ("fallback"), or raises ("raise").      *)
SymbolIds == {"s1", "s2"}

AnalysisOutcomes == {"ok", "fallback", "raise"}

SymbolLists == UNION {[1 .. n -> [symbol : SymbolIds, outcome : AnalysisOutcomes]] :
                          n \in 0 .. MaxSymbols}

(* the keys of the key-indicator dict of a result and of the error result *)
ResultIndicatorKeys == {"is_limit_up", "has_broken", "has_leak", "has_re_limit", "is_strong",
                        "open_count", "final_is_limit_up", "streak_days", "first_limit_up_time"}

FallbackIndicatorKeys == {"is_limit_up", "has_broken", "has_leak", "has_re_limit", "is_strong",
                          "open_count"}

IndicatorKeys(outcome) == IF outcome = "ok" THEN ResultIndicatorKeys ELSE FallbackIndicatorKeys

(* the key indicators batch_analysis reads by subscript *)
BatchReadKeys == {"is_limit_up", "has_broken", "has_leak", "has_re_limit", "is_strong",
                  "open_count"}

(* the row of an entry; entry is its place in the input, kept for the claims *)
StockResult(entry, sym, outcome) ==
    [entry |-> entry, symbol |-> sym, fallback |-> outcome = "fallback"]

(* except Exception: continue. The variant leaves the loop. *)
AfterFailure_break(pos, n) == n + 1

AfterFailure(pos, n) == pos + 1

NoFrame == [returned |-> FALSE, rows |-> <<>>]

BatchStep ==
    /\ batch_df = NoFrame
    /\ batch_pos <= Len(symbols)
    /\ LET e == symbols[batch_pos]
           raises == e.outcome = "raise" \/ ~(BatchReadKeys \subseteq IndicatorKeys(e.outcome))
       IN  IF raises
              THEN /\ batch_pos' = AfterFailure(batch_pos, Len(symbols))
                   /\ all_results' = all_results
              ELSE /\ batch_pos' = batch_pos + 1
                   /\ all_results' = Append(all_results,
                                            StockResult(batch_pos, e.symbol, e.outcome))
    /\ UNCHANGED <<symbols, batch_df, qvars, nvars, tvars, svars, rvars, avars>>

(* pd.DataFrame(all_results), or an empty frame *)
BatchReturn ==
    /\ batch_df = NoFrame
    /\ batch_pos > Len(symbols)
    /\ batch_df' = [returned |-> TRUE, rows |-> all_results]
    /\ UNCHANGED <<symbols, batch_pos, all_results, qvars, nvars, tvars, svars, rvars, avars>>

BatchIdle ==
    /\ symbols = <<>>
    /\ batch_pos = 1
    /\ all_results = <<>>
    /\ batch_df = NoFrame

StreakIdle ==
    /\ fn = "calc"
    /\ hist = [d \in 0 .. HistLen - 1 |-> "empty"]
    /\ tail = "empty"
    /\ today_col = 0
    /\ stock_info = InfoUnset
    /\ pc = "idle"
    /\ i = 0
    /\ j = 0
    /\ streak_days = 0
    /\ today_in_pool = FALSE
    /\ consecutive_failures = 0
    /\ fetches = <<>>
    /\ stock_code = "unset"
    /\ query_date_ok = TRUE
    /\ result = -1

Init ==
    /\ QueryDateIdle
    /\ BatchIdle
    /\ RatingIdle
    /\ AnalysisIdle
    /\ ResolverIdle
    /\ LimitTypeIdle
    /\ fn \in Fns
    /\ hist \in [0 .. HistLen - 1 -> Kinds]
    /\ tail \in TailKinds
    /\ today_col \in 0 .. MaxProv
    /\ (today_col >= 1 => fn = "calc" /\ hist[0] = "sealed")
    /\ stock_info = InfoUnset
    /\ stock_code = "unset"
    /\ query_date_ok \in BOOLEAN
    \* only calculate_streak_days takes the date from its caller; with a date that
    \* does not parse no pool is ever asked, so one history stands for all
    /\ (~query_date_ok => fn = "calc" /\ today_col = 0
                             /\ hist = [d \in 0 .. HistLen - 1 |-> "empty"] /\ tail = "empty")
    /\ pc = "resolve"
    /\ i = 0
    /\ j = 0
    /\ streak_days = 0
    /\ today_in_pool = FALSE
    /\ consecutive_failures = 0
    /\ fetches = <<>>
    /\ result = -1

Next ==
    \/ ResolveSymbol
    \/ GetStockInfo
    \/ CheckToday
    \/ SealedScanStep
    \/ AfterSealed
    \/ OuterScanStep
    \/ InnerScanStep
    \/ Return

Spec == Init /\ [][Next]_vars

(* the rating functions applied to every tuple of flags *)
InitRating ==
    /\ QueryDateIdle
    /\ BatchIdle
    /\ StreakIdle
    /\ AnalysisIdle
    /\ ResolverIdle
    /\ LimitTypeIdle
    /\ args \in Flags
    /\ rating_info = NoRating
    /\ advice = "none"
    /\ m_rating_info = NoRating
    /\ m_advice = "none"
    /\ clock = FALSE
    /\ rating_again = NoRating

NextRating ==
    \/ CallGenerateRating
    \/ CallGenerateInvestmentAdvice
    \/ CallMonitorGenerateRating
    \/ CallMonitorGenerateInvestmentAdvice
    \/ Tick
    \/ CallGenerateRatingAgain

SpecRating == InitRating /\ [][NextRating]_vars

(* comprehensive_stock_analysis over every day's feeds *)
InitAnalysis ==
    /\ QueryDateIdle
    /\ BatchIdle
    /\ StreakIdle
    /\ RatingIdle
    /\ ResolverIdle
    /\ LimitTypeIdle
    /\ limit_feed \in Feeds
    /\ open_feed \in OpenFeeds
    /\ sell_feed \in SellFeeds
    /\ in_limit_pool \in BOOLEAN
    /\ in_zb_pool \in BOOLEAN
    /\ in_strong_pool \in BOOLEAN
    /\ analysis = NoAnalysis

NextAnalysis ==
    \/ ComprehensiveStockAnalysis

SpecAnalysis == InitAnalysis /\ [][NextAnalysis]_vars

(* get_stock_code_by_name for every stock_dict and every text *)
InitResolver ==
    /\ QueryDateIdle
    /\ BatchIdle
    /\ StreakIdle
    /\ RatingIdle
    /\ AnalysisIdle
    /\ LimitTypeIdle
    /\ stock_dict \in [Codes -> Names]
    /\ name \in Names \cup {<<>>}
    /\ resolved = NotResolved

NextResolver ==
    \/ GetStockCodeByName

SpecResolver == InitResolver /\ [][NextResolver]_vars

(* the two classifications applied to every bar *)
InitLimitType ==
    /\ QueryDateIdle
    /\ BatchIdle
    /\ StreakIdle
    /\ RatingIdle
    /\ AnalysisIdle
    /\ ResolverIdle
    /\ bar \in Bars
    /\ limit_type = "unset"
    /\ detailed_type = "unset"

NextLimitType ==
    \/ GetLimitType
    \/ GetDetailedHistory

SpecLimitType == InitLimitType /\ [][NextLimitType]_vars

(* get_query_date of every module at every time of the week *)
InitQueryDate ==
    /\ StreakIdle
    /\ RatingIdle
    /\ AnalysisIdle
    /\ ResolverIdle
    /\ LimitTypeIdle
    /\ now_day \in Todays
    /\ now_hour \in Hours
    /\ trade_calendar \in Calendars
    /\ query_date = [m \in Modules |-> NoDate]
    /\ BatchIdle

NextQueryDate ==
    \/ MonitorGetQueryDate
    \/ FetcherGetQueryDate

SpecQueryDate == InitQueryDate /\ [][NextQueryDate]_vars

(* batch_analysis over every input list and every outcome of its entries *)
InitBatch ==
    /\ StreakIdle
    /\ RatingIdle
    /\ AnalysisIdle
    /\ ResolverIdle
    /\ LimitTypeIdle
    /\ QueryDateIdle
    /\ symbols \in SymbolLists
    /\ batch_pos = 1
    /\ all_results = <<>>
    /\ batch_df = NoFrame

NextBatch ==
    \/ BatchStep
    \/ BatchReturn

SpecBatch == InitBatch /\ [][NextBatch]_vars

-----------------------------------------------------------------------------
(* Reference quantities of the streak claims, read off the pool history    *)
(* alone (no variable of the computation is used).                         *)

StreakDone == pc = "done"

(* the value a provider supplies, 0 when the backward scan decides *)
SuppliedStreak ==
    IF ProviderStreak(stock_info) >= 1 THEN ProviderStreak(stock_info)
    ELSE IF fn = "calc" /\ Kind(0) = "sealed" /\ today_col >= 1 THEN today_col
    ELSE 0

(* sealed days of the maximal backward run from offset d: days without a   *)
(* session or without an answer are skipped, the first day with data that  *)
(* does not list the symbol ends it, and so does the scan bound            *)
(* (max_days_to_check calendar days; where gapLimit holds, more than       *)
(* max_consecutive_unknown unknown days in a row)                          *)
RECURSIVE SealedRun(_, _, _)
SealedRun(d, gap, gapLimit) ==
    IF d >= max_days_to_check THEN 0
    ELSE IF Kind(d) = "sealed" THEN 1 + SealedRun(d + 1, 0, gapLimit)
    ELSE IF Kind(d) \in Unknown
         THEN IF gapLimit /\ gap + 1 > max_consecutive_unknown
                 THEN 0
                 ELSE SealedRun(d + 1, gap + 1, gapLimit)
    ELSE 0

RunLength == SealedRun(0, 0, fn = "monitor")

SealedInWindow == \E d \in 0 .. max_days_to_check - 1 : Kind(d) = "sealed"

(* number of distinct days at the end of the fetch log that gave no data *)
RECURSIVE TrailingUnknown(_)
TrailingUnknown(log) ==
    IF log = <<>> \/ Kind(log[Len(log)]) \notin Unknown THEN {}
    ELSE {log[Len(log)]} \cup TrailingUnknown(SubSeq(log, 1, Len(log) - 1))

UnknownRun == Cardinality(TrailingUnknown(fetches))

-----------------------------------------------------------------------------
GapsWithin(n) ==
    \A d \in 0 .. n - 1 :
        d + max_consecutive_unknown < n
            => \E e \in d .. d + max_consecutive_unknown : Kind(e) = "sealed"

SealedCount(n) == Cardinality({d \in 0 .. n - 1 : Kind(d) = "sealed"})

C9_GapsDoNotChangeStreak ==
    StreakDone /\ SuppliedStreak = 0 /\ Kind(0) = "sealed"
        => \A n \in 1 .. HistLen :
              ( /\ \A d \in 0 .. n - 1 : Kind(d) \in {"sealed", "empty"}
                /\ Kind(n) = "unsealed"
                /\ GapsWithin(n) )
                  => result = SealedCount(n)

C9_Witness ==
    /\ StreakDone
    /\ SuppliedStreak = 0
    /\ Kind(0) = "sealed" /\ Kind(1) = "sealed" /\ Kind(2) = "empty"
    /\ Kind(3) = "empty" /\ Kind(4) = "sealed" /\ Kind(5) = "unsealed"
    /\ result = 3

(* C10: in every scan, once more than max_consecutive_unknown days in a    *)
(* row gave no data, no further date is fetched.                           *)
C10_ScanStopsAfterUnknownRun ==
    [][UnknownRun > max_consecutive_unknown => fetches' = fetches]_vars

-----------------------------------------------------------------------------
(* The returned value of a scan over a history given as an argument: the   *)
(* count of SealedRun for the history h with tail t.                       *)
KindIn(h, t, d) == IF d < HistLen THEN h[d] ELSE t

RECURSIVE RunIn(_, _, _, _, _)
RunIn(h, t, d, gap, gapLimit) ==
    IF d >= max_days_to_check THEN 0
    ELSE IF KindIn(h, t, d) = "sealed" THEN 1 + RunIn(h, t, d + 1, 0, gapLimit)
    ELSE IF KindIn(h, t, d) \in Unknown
         THEN IF gapLimit /\ gap + 1 > max_consecutive_unknown
                 THEN 0
                 ELSE RunIn(h, t, d + 1, gap + 1, gapLimit)
    ELSE 0

(* a definitive history: n sealed days, then a trading day not sealed *)
DefiniteHistory(n) == [d \in 0 .. HistLen - 1 |-> IF d < n THEN "sealed" ELSE "unsealed"]

DefiniteResults == {RunIn(DefiniteHistory(n), "unsealed", 0, 0, FALSE) : n \in 1 .. HistLen}

(* the scan ran into the lookback bound or the unknown-run threshold: no   *)
(* day of the window is a trading day on which the symbol is not sealed    *)
ScanTruncated ==
    /\ SuppliedStreak = 0
    /\ Kind(0) = "sealed"
    /\ \A d \in 1 .. max_days_to_check - 1 : Kind(d) \in {"sealed"} \cup Unknown

(* C11: the caller can tell a truncated scan from a definitive one: the    *)
(* value returned by a truncated scan is none of the values a definitive   *)
(* scan returns.                                                           *)
C11_TruncatedIsRecognisable ==
    StreakDone /\ ScanTruncated => result \notin DefiniteResults

-----------------------------------------------------------------------------
(* C12: every streak computation returns, whatever the pool source         *)
(* answers; it makes at most max_days_to_check + 1 pool fetches and never  *)
(* asks for a date more than max_days_to_check days before the as-of date. *)
FetchesBounded ==
    /\ Len(fetches) <= max_days_to_check + 1
    /\ \A k \in 1 .. Len(fetches) : fetches[k] <= max_days_to_check

StreakReturned == pc \in {"done", "failed"}

(* an upper bound on the steps a computation still has to take: the stage  *)
(* it is in, and within a loop the iterations its range has left           *)
StepsLeft ==
    CASE pc = "resolve" -> 3 * max_days_to_check + 8
      [] pc = "info" -> 3 * max_days_to_check + 7
      [] pc = "today" -> 3 * max_days_to_check + 6
      [] pc = "sealed_scan" -> 2 * max_days_to_check + 5 + (max_days_to_check + 1 - i)
      [] pc = "after_sealed" -> 2 * max_days_to_check + 4
      [] pc = "outer_scan" -> max_days_to_check + 3 + (max_days_to_check - i)
      [] pc = "inner_scan" -> 2 + (max_days_to_check - j)
      [] pc = "return" -> 1
      [] OTHER -> 0

(* Termination is stated by a variant: every step lowers StepsLeft, which  *)
(* stays a natural number, and a computation that has not returned always  *)
(* has a step to take.                                                     *)
C12_StreakTerminatesBounded ==
    /\ [][StepsLeft' < StepsLeft]_vars
    /\ [](StepsLeft \in Nat)
    /\ [](StreakReturned \/ ENABLED Next)
    /\ []FetchesBounded

C12_Witness ==
    /\ StreakDone
    /\ Len(fetches) = max_days_to_check + 1
    /\ \A d \in 0 .. max_days_to_check - 1 : Kind(d) = "error"

(* C13: a pool that was fetched successfully and is empty is a trading day *)
(* on which the symbol is not sealed, and ends the backward run: a symbol  *)
(* sealed on the as-of date whose previous day has an empty pool has a     *)
(* streak of 1.                                                            *)
C13_EmptyPoolEndsRun ==
    StreakDone /\ SuppliedStreak = 0 /\ Kind(0) = "sealed" /\ Kind(1) = "empty"
        => result = 1

(* C14: no date is requested from the pool source twice in one streak      *)
(* computation.                                                            *)
C14_NoDateFetchedTwice ==
    \A k1, k2 \in 1 .. Len(fetches) : fetches[k1] = fetches[k2] => k1 = k2

(* C16: when the resolver finds no stock for the input, nothing is asked   *)
(* of the pool source for it.                                              *)
C16_NotFoundSkipsComputation ==
    stock_code = "padded_not_found" => fetches = <<>>

(* C20: calculate_streak_days hands no fault to its caller: whatever the   *)
(* resolver, get_stock_info and the pool source do on each call, and with  *)
(* a query_date that does not parse, the call goes on until it returns,    *)
(* and what it returns is a non-negative integer.                          *)
C20_NeverPropagatesFault ==
    fn = "calc"
        => IF StreakReturned THEN result \in Nat ELSE ENABLED Next

C20_Witness ==
    /\ fn = "calc"
    /\ pc = "failed"
    /\ ~query_date_ok
    /\ stock_info = InfoRaised
    /\ stock_code = "padded_no_resolver"
    /\ result = 0

-----------------------------------------------------------------------------
(* Claims about the name resolution (SpecResolver) *)

(* every stock the text matches *)
Candidates == search_by_name(stock_dict, name, MaxCodes)

(* C15: a text that matches more than one stock is never resolved to a     *)
(* code: the caller gets the ambiguity, with the candidates.               *)
C15_AmbiguousNameNotChosen ==
    resolved # NotResolved /\ Len(Candidates) > 1 => resolved.status = "ambiguous"

-----------------------------------------------------------------------------
(* Claims about the limit-type classification (SpecLimitType) *)

AllAtLimit ==
    /\ bar.open = LimitPrice(bar.prev_close)
    /\ bar.high = LimitPrice(bar.prev_close)
    /\ bar.low = LimitPrice(bar.prev_close)
    /\ bar.close = LimitPrice(bar.prev_close)

(* a bar that closes at the cap and that the code takes for a limit-up *)
LimitUpBar == bar.close = LimitPrice(bar.prev_close) /\ _is_limit_up(PctChange(bar))

(* C17: a limit-up bar is classified one-word exactly when open, high, low *)
(* and close all equal the limit price, by _get_limit_type and by          *)
(* _get_detailed_history: every such bar is one-word, and no bar with a    *)
(* low below the limit price is.                                           *)
C17_OneWordIffAllAtLimit ==
    LimitUpBar
        => /\ limit_type # "unset" => (limit_type = "one-word" <=> AllAtLimit)
           /\ detailed_type # "unset" => (detailed_type = "one-word" <=> AllAtLimit)

-----------------------------------------------------------------------------
(* Claims about the rating functions (SpecRating) *)

Grades == {"A++", "A+", "A", "A-", "B+", "B", "B-", "C+", "C", "D-", "E", "F"}

(* the ordered 13-rule first-match-wins table of the rating engine *)
TableGrade(is_limit, is_broken, has_big_sell, is_resealed, is_strong_pool, is_one_word) ==
    CASE is_broken /\ ~is_resealed -> "D-"
      [] is_one_word /\ ~has_big_sell /\ ~is_broken -> "A++"
      [] is_one_word -> "A+"
      [] is_limit /\ ~is_broken /\ ~has_big_sell /\ is_strong_pool -> "A+"
      [] is_limit /\ ~is_broken /\ ~has_big_sell -> "A"
      [] is_limit /\ is_resealed /\ ~has_big_sell /\ is_strong_pool -> "A-"
      [] is_limit /\ is_resealed /\ ~has_big_sell -> "B+"
      [] is_limit /\ is_strong_pool -> "B"
      [] is_limit -> "B-"
      [] ~is_limit /\ is_strong_pool /\ ~is_broken -> "C+"
      [] ~is_limit /\ is_strong_pool -> "C"
      [] has_big_sell -> "E"
      [] OTHER -> "F"

(* C1: with the two break signals agreeing, generate_rating returns the    *)
(* grade of the 13-rule table for every tuple of flags.                    *)
C1_RatingMatchesTable ==
    rating_info # NoRating /\ args.has_open_limit = args.is_in_zb_pool
        => rating_info.rating =
              TableGrade(args.is_limit_up, args.has_open_limit, args.has_big_sell,
                         args.has_re_limit, args.is_in_strong_pool, args.is_one_word_limit)

C1_Witness ==
    /\ rating_info.rating = "B-"
    /\ args.has_open_limit = args.is_in_zb_pool
    /\ args.has_big_sell

(* C2: a break without a reseal is rated D- by generate_rating and by      *)
(* _generate_rating, whatever the other flags are.                         *)
C2_BrokenUnsealedIsDMinus ==
    args.has_open_limit /\ ~args.has_re_limit
        => /\ rating_info # NoRating => rating_info.rating = "D-"
           /\ m_rating_info # NoRating => m_rating_info.rating = "D-"

C2_Witness ==
    /\ args.has_open_limit /\ ~args.has_re_limit
    /\ args.is_one_word_limit /\ args.is_limit_up /\ args.is_in_strong_pool
    /\ rating_info.rating = "D-"
    /\ m_rating_info.rating = "D-"

C4_AdviceFixedPerGrade ==
    rating_info # NoRating /\ advice # "none" /\ ~args.is_one_word_limit
        => \A b \in Flags :
              ~b.is_one_word_limit /\ generate_rating(b).rating = rating_info.rating
                  => generate_investment_advice(b) = advice

-----------------------------------------------------------------------------
(* Claims about comprehensive_stock_analysis (SpecAnalysis) *)

AnalysisDone == analysis # NoAnalysis

(* C5: a symbol in the broken-seal pool with no reseal detected is rated   *)
(* D-, whatever the intraday feed reports.                                 *)
C5_BrokenPoolUnsealedIsDMinus ==
    AnalysisDone /\ analysis.in_zb_pool /\ ~analysis.change_analysis.has_re_limit
        => analysis.rating = "D-"

(* C6: a symbol sealed from the open (one seal event at the session's      *)
(* open, in the limit pool), never broken and without a big sell is rated  *)
(* A++.                                                                    *)
OneWordDay ==
    /\ limit_feed = <<1>>
    /\ open_feed = <<>>
    /\ in_limit_pool
    /\ ~in_zb_pool

C6_OneWordDayIsAPlusPlus ==
    AnalysisDone /\ OneWordDay /\ sell_feed = <<>> => analysis.rating = "A++"

-----------------------------------------------------------------------------
(* Claims about the intraday events (SpecAnalysis) *)

Parses(t) == _parse_time_to_datetime(t) # NoTime

AllParse(feed) == \A k \in 1 .. Len(feed) : Parses(feed[k])

(* the time of the chronologically last event of a feed *)
LastTime(feed) == CHOOSE t \in {feed[k] : k \in 1 .. Len(feed)} :
                      \A k \in 1 .. Len(feed) : feed[k] <= t

(* C18: for a symbol with at least one break event (all times well formed) *)
(* the reseal flag is set exactly when the chronologically last seal event *)
(* is strictly later than the chronologically last break event, whatever   *)
(* the order of the rows in the feed; the break itself is always reported. *)
(* Stated for the symbols that are not in the limit pool, where the events *)
(* alone decide.                                                           *)
C18_ResealIffLastSealAfterLastBreak ==
    (AnalysisDone /\ ~in_limit_pool /\ open_feed # <<>>
       /\ AllParse(open_feed) /\ AllParse(limit_feed))
        => /\ analysis.change_analysis.has_open_limit
           /\ analysis.change_analysis.has_re_limit
                 <=> (limit_feed # <<>> /\ LastTime(limit_feed) > LastTime(open_feed))

(* a feed without its malformed records *)
WellFormed(feed) == SelectSeq(feed, Parses)

(* C19: a record whose time does not parse is dropped on its own: the      *)
(* reseal and big-sell flags are those of the same feeds without the       *)
(* malformed records.                                                      *)
C19_MalformedRecordDropped ==
    AnalysisDone
        => LET clean == analyze_limit_up_changes(WellFormed(limit_feed), WellFormed(open_feed),
                                                 WellFormed(sell_feed), in_limit_pool)
           IN  /\ analysis.change_analysis.has_re_limit = clean.has_re_limit
               /\ analysis.change_analysis.has_big_sell = clean.has_big_sell

-----------------------------------------------------------------------------
(* Claims about failed fetches inside the backward scan (Spec) *)

(* the day a scan step asks the pool source for *)
ScanDay == IF pc = "inner_scan" THEN i + j ELSE i

(* the range of the running loop has a further day *)
ScanHasNextDay ==
    IF pc = "inner_scan" THEN j + 1 < InnerScanBound(i) ELSE i + 1 < max_days_to_check

(* C22: a fetch that raises for a day inside the backward scan does not    *)
(* end the streak: in the sealed scan, in the scan for an earlier sealed   *)
(* day and in the inner scan behind that day, the step that meets the      *)
(* failed day keeps the count and goes on with the previous calendar day   *)
(* (unless the range is exhausted or the unknown-run limit is passed).     *)
C22_FailedFetchSkipped ==
    [][(/\ pc \in {"sealed_scan", "outer_scan", "inner_scan"}
        /\ Kind(ScanDay) = "error"
        /\ ScanHasNextDay
        /\ ~(pc = "sealed_scan" /\ FailureLimitHit(fn, consecutive_failures + 1)))
          => /\ pc' = pc
             /\ streak_days' = streak_days
             /\ ScanDay' = ScanDay + 1]_vars

-----------------------------------------------------------------------------
(* Claims about the big-sell and reseal flags (SpecAnalysis) *)

(* the seal baseline: without a break the first seal time, after a break   *)
(* and a reseal the last seal time, after a break without a reseal none    *)
SealBaseline ==
    IF limit_feed = <<>> THEN NoTime
    ELSE IF ~analysis.change_analysis.has_open_limit THEN limit_feed[1]
    ELSE IF analysis.change_analysis.has_re_limit THEN limit_feed[Len(limit_feed)]
    ELSE NoTime

(* C23: the big-sell flag is set only if the seal baseline exists and some *)
(* big-sell event is strictly later than it; after a break and a reseal    *)
(* only big sells later than the last seal count, and after a break        *)
(* without a reseal the flag is never set.                                 *)
C23_BigSellGatedByBaseline ==
    AnalysisDone /\ analysis.change_analysis.has_big_sell
        => /\ Parses(SealBaseline)
           /\ \E k \in 1 .. Len(sell_feed) :
                 Parses(sell_feed[k]) /\ sell_feed[k] > SealBaseline

(* C24: a reseal is reported only after a break: the reseal flag implies   *)
(* the break flag, and the reseal time is given only with both.            *)
C24_ResealedImpliesBroken ==
    AnalysisDone
        => /\ analysis.change_analysis.has_re_limit
                 => analysis.change_analysis.has_open_limit
           /\ analysis.change_analysis.re_limit_time # NoTime
                 => /\ analysis.change_analysis.has_re_limit
                    /\ analysis.change_analysis.has_open_limit

-----------------------------------------------------------------------------
(* Further claims about the rating functions (SpecRating) *)

(* C25: without the one-word flag the extracted functions return what the  *)
(* monitor's own copies return, for every tuple of the six shared flags:   *)
(* the same rating and description, and the same advice.                   *)
C25_ExtractedEqualsMonitor ==
    ~args.is_one_word_limit
        => /\ rating_info # NoRating /\ m_rating_info # NoRating
                 => rating_info = m_rating_info
           /\ advice # "none" /\ m_advice # "none" => advice = m_advice

C25_Witness ==
    /\ ~args.is_one_word_limit
    /\ args.is_limit_up /\ args.has_open_limit /\ args.has_re_limit /\ args.has_big_sell
    /\ rating_info.rating = "B-"
    /\ m_rating_info = rating_info
    /\ advice # "none"
    /\ m_advice = advice

(* the place of a grade in the order A++ > A+ > ... > E > F (12 = best) *)
GradeOrder == <<"F", "E", "D-", "C", "C+", "B-", "B", "B+", "A-", "A", "A+", "A++">>

GradeRank(g) == CHOOSE k \in 1 .. Len(GradeOrder) : GradeOrder[k] = g

(* the grade of the same flags with one of them set *)
GradeWith(f) == generate_rating([args EXCEPT ![f] = TRUE]).rating

(* C28 (as claimed): setting has_big_sell never improves the grade, for     *)
(* every setting of the other flags.                                       *)
C28_BigSellNeverImproves ==
    rating_info # NoRating /\ ~args.has_big_sell
        => GradeRank(GradeWith("has_big_sell")) <= GradeRank(rating_info.rating)

(* C28 (amended): setting has_big_sell never improves the grade, except    *)
(* that flags rated F (nothing notable) are rated E (big sell) with it:    *)
(* from every grade other than F the grade stays or gets worse.            *)
C28_BigSellNeverImprovesButF ==
    rating_info # NoRating /\ ~args.has_big_sell
        => IF rating_info.rating = "F"
              THEN GradeWith("has_big_sell") = "E"
              ELSE GradeRank(GradeWith("has_big_sell")) <= GradeRank(rating_info.rating)

C28_Witness ==
    /\ ~args.has_big_sell
    /\ rating_info.rating = "A+"
    /\ ~args.is_one_word_limit
    /\ GradeWith("has_big_sell") = "B"

(* the grade of the same flags with one of them cleared *)
GradeWithout(f) == generate_rating([args EXCEPT ![f] = FALSE]).rating

(* C29: strong-pool membership never worsens the grade: for every setting  *)
(* of the other flags the grade with is_in_strong_pool set is equal to or  *)
(* better than the grade without it.                                       *)
C29_StrongPoolNeverWorsens ==
    rating_info # NoRating /\ args.is_in_strong_pool
        => GradeRank(rating_info.rating) >= GradeRank(GradeWithout("is_in_strong_pool"))

C29_Witness ==
    /\ args.is_in_strong_pool
    /\ args.is_limit_up /\ args.has_open_limit /\ args.has_re_limit /\ ~args.has_big_sell
    /\ ~args.is_one_word_limit
    /\ rating_info.rating = "A-"
    /\ GradeWithout("is_in_strong_pool") = "B+"

-----------------------------------------------------------------------------
(* Claims about the result of comprehensive_stock_analysis (SpecAnalysis) *)

LimitGrades == {"A++", "A+", "A", "A-", "B+", "B", "B-"}

(* C30: the grade agrees with the reported end-of-day seal status:         *)
(* whenever the result says the symbol is finally limit-up, its grade is   *)
(* one of the limit grades A++ to B-.                                      *)
C30_FinalLimitUpHasLimitGrade ==
    AnalysisDone /\ analysis.key_final_is_limit_up => analysis.rating \in LimitGrades

-----------------------------------------------------------------------------
(* Claims about the query date (SpecQueryDate) *)

IsWeekend(d) == Weekday(d) >= 5

(* C26: before 16:00 every module returns an earlier day that is not a     *)
(* Saturday or a Sunday, from 16:00 on the current date, and all modules   *)
(* return the same date for the same current time.                         *)
C26_QueryDateRule ==
    \A m \in Modules :
        query_date[m] # NoDate
            => /\ IF now_hour < data_update_hour
                     THEN query_date[m] < now_day /\ ~IsWeekend(query_date[m])
                     ELSE query_date[m] = now_day
               /\ \A n \in Modules :
                     query_date[n] # NoDate => query_date[n] = query_date[m]

-----------------------------------------------------------------------------
(* Claims about what the streak depends on (Spec) *)

(* the nearest day of the window whose pool lists the symbol *)
FirstSealed == CHOOSE d \in 0 .. max_days_to_check - 1 :
                   Kind(d) = "sealed" /\ \A e \in 0 .. d - 1 : Kind(e) # "sealed"

(* sealed days behind day d that the look-back counts: it stops at a day   *)
(* that does not list the symbol and at a day whose fetch fails            *)
RECURSIVE EarlierRun(_, _)
EarlierRun(d, k) ==
    IF k >= max_days_to_check - d THEN 0
    ELSE IF Kind(d + k) = "sealed" THEN 1 + EarlierRun(d, k + 1)
    ELSE IF Kind(d + k) \in {"unsealed", "error"} THEN 0
    ELSE EarlierRun(d, k + 1)

(* the streak that the pools of the as-of date and of the days before it   *)
(* give: what calculate_streak_days returns when get_stock_info supplies   *)
(* no 连板数                                                               *)
HistoryStreak ==
    IF Kind(0) = "sealed"
        THEN IF today_col >= 1 THEN today_col ELSE SealedRun(0, 0, FALSE)
    ELSE IF ~SealedInWindow THEN 0
    ELSE 1 + EarlierRun(FirstSealed, 1)

(* C27: the value calculate_streak_days returns is determined by the       *)
(* symbol and the pools of query_date and of earlier dates: every run over *)
(* the same pool history returns the same streak, the one that history     *)
(* gives, whatever get_stock_info reads from the pool of the fetcher's own *)
(* current query date.                                                     *)
C27_StreakDependsOnHistoryOnly ==
    fn = "calc" /\ StreakDone => result = HistoryStreak

-----------------------------------------------------------------------------
(* Claims about batch_analysis (SpecBatch) *)

BatchDone == batch_df.returned

(* C21: batch_analysis goes through its whole input: an entry whose        *)
(* analysis raises or returns the error result never keeps a later entry   *)
(* from being analysed. Every entry whose analysis returned has its row,   *)
(* the rows are those of distinct entries in input order, and until the    *)
(* frame is returned there is a next step.                                 *)
C21_BatchNeverBlocked ==
    IF BatchDone
       THEN /\ \A k \in 1 .. Len(symbols) :
                  symbols[k].outcome # "raise"
                      => \E r \in 1 .. Len(batch_df.rows) : batch_df.rows[r].entry = k
            /\ \A r \in 1 .. Len(batch_df.rows) :
                  /\ batch_df.rows[r].entry \in 1 .. Len(symbols)
                  /\ batch_df.rows[r].symbol = symbols[batch_df.rows[r].entry].symbol
            /\ \A r1, r2 \in 1 .. Len(batch_df.rows) :
                  r1 < r2 => batch_df.rows[r1].entry < batch_df.rows[r2].entry
       ELSE ENABLED NextBatch

C21_Witness ==
    /\ BatchDone
    /\ Len(symbols) = 3
    /\ symbols[1].outcome = "raise"
    /\ symbols[2].outcome = "fallback"
    /\ symbols[3].outcome = "ok"
    /\ Len(batch_df.rows) = 2
    /\ batch_df.rows[1].fallback /\ batch_df.rows[1].entry = 2
    /\ batch_df.rows[2].entry = 3

====
